---- MODULE Spec2Model ----
(***************************************************************************)
(* secmetrics: the metrics collector (pkg/metrics/metrics.go) and the      *)
(* report generator (pkg/reporting/reporting.go) as state machines.        *)
(*                                                                         *)
(* float64 values are modelled as exact rationals n/d (d > 0, lowest       *)
(* terms) extended with the IEEE-754 specials NaN, +Inf and -Inf, with     *)
(* the IEEE rules for division by zero, Inf - Inf, 0 * Inf and for         *)
(* comparisons against NaN.  Rounding of finite results is not modelled.   *)
(* Wall-clock stamps that no computation reads (SecurityMetric.Timestamp,  *)
(* KPI.LastUpdated, MetricsSummary.LastUpdated) are not part of the state; *)
(* the clock the report IDs are derived from is.                           *)
(***************************************************************************)
EXTENDS Integers, Sequences, FiniteSets, TLC

VARIABLES metrics, kpis, summary,      \* MetricsCollector
          hCompliance, hRisk, hResult, \* one call of determineHealth
          reports, now, lookup,        \* ReportGenerator, its clock, last GetReport
          doc, out,                    \* a *Report a caller holds, the last text rendered
          seedPos, kpiLookup,          \* the range loop over GetCommonKPIs, last GetKPI
          handle, pc, reportType,      \* the CLI's generateReport: its report, position, argument
          gpc, glocal, garg            \* two goroutines calling AddMetric on one collector

cvars == <<metrics, kpis, summary>>
hvars == <<hCompliance, hRisk, hResult>>
rvars == <<reports, now, lookup>>
dvars == <<doc, out>>
svars == <<seedPos, kpiLookup>>
clivars == <<handle, pc, reportType>>
gvars == <<gpc, glocal, garg>>
vars  == <<metrics, kpis, summary, hCompliance, hRisk, hResult, reports, now, lookup,
           doc, out, seedPos, kpiLookup, handle, pc, reportType, gpc, glocal, garg>>

\* ------------------------------------------------------------------ bounds
MaxMetrics == 3
MaxKPIs == 2
MaxReports == 2
MaxItems == 2
MaxNow == 2
\* clock readings per second: the ID keeps whole seconds only
TicksPerSecond == 2

\* ----------------------------------------------------------------- float64
Abs(x) == IF x < 0 THEN -x ELSE x
Sgn(x) == IF x < 0 THEN -1 ELSE 1

RECURSIVE GCD(_, _)
GCD(a, b) == IF b = 0 THEN a ELSE GCD(b, a % b)

\* the finite value n/d in lowest terms with a positive denominator
Fin(n, d) ==
    LET g == GCD(Abs(n), Abs(d))
        s == Sgn(d)
    IN  [k |-> "fin", n |-> (s * n) \div g, d |-> (s * d) \div g]

NaN  == [k |-> "nan", n |-> 0, d |-> 1]
PInf == [k |-> "inf", n |-> 1, d |-> 1]
NInf == [k |-> "inf", n |-> -1, d |-> 1]
Zero == Fin(0, 1)
Num(i) == Fin(i, 1)

IsFinite(x) == x.k = "fin"
IsNaN(x) == x.k = "nan"
SignedInf(s) == IF s < 0 THEN NInf ELSE PInf

FAdd(a, b) ==
    IF IsNaN(a) \/ IsNaN(b) THEN NaN
    ELSE IF a.k = "inf" /\ b.k = "inf" THEN (IF a.n = b.n THEN a ELSE NaN)
    ELSE IF a.k = "inf" THEN a
    ELSE IF b.k = "inf" THEN b
    ELSE Fin(a.n * b.d + b.n * a.d, a.d * b.d)

FMul(a, b) ==
    IF IsNaN(a) \/ IsNaN(b) THEN NaN
    ELSE IF a.k = "inf" \/ b.k = "inf"
         THEN (IF a.n = 0 \/ b.n = 0 THEN NaN ELSE SignedInf(Sgn(a.n) * Sgn(b.n)))
    ELSE Fin(a.n * b.n, a.d * b.d)

FDiv(a, b) ==
    IF IsNaN(a) \/ IsNaN(b) THEN NaN
    ELSE IF a.k = "inf" /\ b.k = "inf" THEN NaN
    ELSE IF a.k = "inf" THEN SignedInf(Sgn(a.n) * Sgn(b.n))
    ELSE IF b.k = "inf" THEN Zero
    ELSE IF b.n = 0 THEN (IF a.n = 0 THEN NaN ELSE SignedInf(Sgn(a.n)))
    ELSE Fin(a.n * b.d, a.d * b.n)

\* a <= b; every comparison with NaN is false
FLe(a, b) ==
    IF IsNaN(a) \/ IsNaN(b) THEN FALSE
    ELSE IF a.k = "inf" THEN (a.n < 0 \/ (b.k = "inf" /\ b.n > 0))
    ELSE IF b.k = "inf" THEN b.n > 0
    ELSE a.n * b.d <= b.n * a.d

FGe(a, b) == FLe(b, a)

\* ------------------------------------------------------- MetricsCollector
TypeCompliance == "compliance"
TypeRisk == "risk"
TypeVulnerability == "vulnerability"

SecurityMetric(t, v, g) == [Type |-> t, Value |-> v, Target |-> g]

\* the metrics a caller may add: no validation, so zero and negative targets,
\* ratios above 100 % and negative values are all accepted
MetricInputs ==
    { SecurityMetric(TypeCompliance, Num(p[1]), Num(p[2])) :
        p \in { <<80, 100>>, <<100, 100>>, <<92, 100>>, <<150, 100>>,
                <<0, 0>>, <<50, 0>>, <<-50, 0>>, <<50, -100>> } }
    \cup { SecurityMetric(TypeRisk, v, Num(50)) :
             v \in { Num(30), Fin(91, 2), Num(-50) } }
    \cup { SecurityMetric(TypeVulnerability, Num(45), Num(20)) }

KPI(key, name, v, g, unit, status, trend, category) ==
    [Key |-> key, Name |-> name, Value |-> v, Target |-> g, Unit |-> unit,
     Status |-> status, Trend |-> trend, Category |-> category]

KPIInputs ==
    { KPI("compliance", "Compliance Score", Num(92), Num(100), "%", "BELOW_TARGET",
          "STABLE", "Compliance"),
      KPI("mttr", "Mean Time to Respond (MTTR)", Fin(5, 2), Num(1), "hours",
          "BELOW_TARGET", "IMPROVING", "Response") }

\* &MetricsSummary{}: Go's zero value
ZeroSummary ==
    [TotalMetrics |-> 0, TotalKPIS |-> 0, ComplianceScore |-> Zero,
     RiskScore |-> Zero, OverallHealth |-> ""]

GetMetricByType(ms, metricType) == SelectSeq(ms, LAMBDA m : m.Type = metricType)

RECURSIVE ComplianceLoop(_, _, _, _)
ComplianceLoop(sel, i, total, weighted) ==
    IF i > Len(sel) THEN <<total, weighted>>
    ELSE ComplianceLoop(sel, i + 1, total + 1,
             FAdd(weighted, FMul(FDiv(sel[i].Value, sel[i].Target), Num(100))))

\* GetComplianceScore dividing by the number of all metrics
GetComplianceScore_AllCount(ms) ==
    LET r == ComplianceLoop(GetMetricByType(ms, TypeCompliance), 1, 0, Zero)
    IN  IF r[1] = 0 THEN Zero ELSE FDiv(r[2], Num(Len(ms)))

GetComplianceScore(ms) ==
    LET r == ComplianceLoop(GetMetricByType(ms, TypeCompliance), 1, 0, Zero)
    IN  IF r[1] = 0 THEN Zero ELSE FDiv(r[2], Num(r[1]))

RECURSIVE RiskLoop(_, _, _, _)
RiskLoop(sel, i, total, weighted) ==
    IF i > Len(sel) THEN <<total, weighted>>
    ELSE RiskLoop(sel, i + 1, total + 1, FAdd(weighted, sel[i].Value))

\* GetRiskScore averaging Value / Target * 100 as GetComplianceScore does
GetRiskScore_AsRatio(ms) ==
    LET r == ComplianceLoop(GetMetricByType(ms, TypeRisk), 1, 0, Zero)
    IN  IF r[1] = 0 THEN Zero ELSE FDiv(r[2], Num(r[1]))

GetRiskScore(ms) ==
    LET r == RiskLoop(GetMetricByType(ms, TypeRisk), 1, 0, Zero)
    IN  IF r[1] = 0 THEN Zero ELSE FDiv(r[2], Num(r[1]))

\* determineHealth with > and < where the code has >= and <=
determineHealth_Strict(compliance, risk) ==
    IF ~FLe(compliance, Num(90)) /\ ~FGe(risk, Num(30)) /\ ~IsNaN(compliance) /\ ~IsNaN(risk)
    THEN "HEALTHY"
    ELSE IF ~FLe(compliance, Num(70)) /\ ~FGe(risk, Num(50)) /\ ~IsNaN(compliance) /\ ~IsNaN(risk)
    THEN "GOOD"
    ELSE IF ~FLe(compliance, Num(50)) /\ ~FGe(risk, Num(70)) /\ ~IsNaN(compliance) /\ ~IsNaN(risk)
    THEN "FAIR"
    ELSE "POOR"

\* determineHealth whose GOOD tier asks for a risk of at least 50
determineHealth_GoodRiskFlipped(compliance, risk) ==
    IF FGe(compliance, Num(90)) /\ FLe(risk, Num(30)) THEN "HEALTHY"
    ELSE IF FGe(compliance, Num(70)) /\ FGe(risk, Num(50)) THEN "GOOD"
    ELSE IF FGe(compliance, Num(50)) /\ FLe(risk, Num(70)) THEN "FAIR"
    ELSE "POOR"

determineHealth(compliance, risk) ==
    IF FGe(compliance, Num(90)) /\ FLe(risk, Num(30)) THEN "HEALTHY"
    ELSE IF FGe(compliance, Num(70)) /\ FLe(risk, Num(50)) THEN "GOOD"
    ELSE IF FGe(compliance, Num(50)) /\ FLe(risk, Num(70)) THEN "FAIR"
    ELSE "POOR"

updateSummary(ms, ks) ==
    LET c == GetComplianceScore(ms)
        r == GetRiskScore(ms)
    IN  [TotalMetrics |-> Len(ms), TotalKPIS |-> Len(ks), ComplianceScore |-> c,
         RiskScore |-> r, OverallHealth |-> determineHealth(c, r)]

GetSummary == summary

NoKPILookup == [key |-> "", ret |-> 0]

NewMetricsCollector ==
    /\ metrics = << >>
    /\ kpis = << >>
    /\ summary = ZeroSummary

AddMetric(metric) ==
    /\ Len(metrics) < MaxMetrics
    /\ metrics' = Append(metrics, metric)
    /\ summary' = updateSummary(metrics', kpis)
    /\ UNCHANGED kpis

\* AddKPI without the updateSummary call
AddKPI_NoRefresh(kpi) ==
    /\ Len(kpis) < MaxKPIs
    /\ kpis' = Append(kpis, kpi)
    /\ UNCHANGED <<metrics, summary>>

\* c.kpis = append(c.kpis, kpi); c.updateSummary()
MetricsCollector_AddKPI(kpi) ==
    /\ kpis' = Append(kpis, kpi)
    /\ summary' = updateSummary(metrics, kpis')
    /\ UNCHANGED metrics

AddKPI(kpi) ==
    /\ Len(kpis) < MaxKPIs
    /\ MetricsCollector_AddKPI(kpi)

\* ----------------------------------------------- a collector of seed KPIs
KPI_MTTR == "mttr"
KPI_MTTC == "mttc"
KPI_MTTD == "mttd"
KPI_Coverage == "coverage"
KPI_Compliance == "compliance"
KPI_RemediationRate == "remediation_rate"
KPI_DetectionRate == "detection_rate"
KPI_ResponseTime == "response_time"

GetCommonKPIs ==
    << KPI(KPI_MTTR, "Mean Time to Respond (MTTR)", Fin(5, 2), Num(1), "hours",
           "BELOW_TARGET", "IMPROVING", "Response"),
       KPI(KPI_MTTC, "Mean Time to Contain (MTTC)", Num(4), Num(2), "hours",
           "BELOW_TARGET", "STABLE", "Response"),
       KPI(KPI_MTTD, "Mean Time to Detect (MTTD)", Fin(1, 2), Fin(1, 4), "hours",
           "BELOW_TARGET", "IMPROVING", "Detection"),
       KPI(KPI_Coverage, "Security Coverage", Num(85), Num(100), "%",
           "BELOW_TARGET", "IMPROVING", "Prevention"),
       KPI(KPI_Compliance, "Compliance Score", Num(92), Num(100), "%",
           "BELOW_TARGET", "STABLE", "Compliance"),
       KPI(KPI_RemediationRate, "Vulnerability Remediation Rate", Num(78), Num(95), "%",
           "BELOW_TARGET", "IMPROVING", "Remediation") >>

KPIKeys ==
    { KPI_MTTR, KPI_MTTC, KPI_MTTD, KPI_Coverage, KPI_Compliance, KPI_RemediationRate,
      KPI_DetectionRate, KPI_ResponseTime, "uptime" }

\* KPIs a caller adds next to the seed ones: a key the seed set has, a key it
\* has not
ExtraKPIs ==
    { KPI(KPI_MTTR, "Custom MTTR", Num(1), Num(1), "hours", "ON_TARGET", "STABLE",
          "Response"),
      KPI(KPI_DetectionRate, "Detection Rate", Num(95), Num(99), "%", "BELOW_TARGET",
          "STABLE", "Detection") }

\* the number of KPIs a caller adds next to the seed ones
MaxExtra == 2

RECURSIVE GetKPILoop(_, _, _)
GetKPILoop(ks, i, key) ==
    IF i > Len(ks) THEN 0
    ELSE IF ks[i].Key = key THEN i
    ELSE GetKPILoop(ks, i + 1, key)

\* GetKPI returning the last KPI of the key
GetKPI_Last(ks, key) ==
    IF \E i \in 1 .. Len(ks) : ks[i].Key = key
    THEN CHOOSE i \in 1 .. Len(ks) :
            ks[i].Key = key /\ \A j \in (i + 1) .. Len(ks) : ks[j].Key # key
    ELSE 0

\* &c.kpis[i] is represented by the position i, nil by 0
GetKPI(ks, key) == GetKPILoop(ks, 1, key)

\* one turn of `for _, kpi := range commonKPIS { collector.AddKPI(kpi) }`
LoadSeedKPI ==
    /\ seedPos < Len(GetCommonKPIs)
    /\ MetricsCollector_AddKPI(GetCommonKPIs[seedPos + 1])
    /\ seedPos' = seedPos + 1
    /\ UNCHANGED kpiLookup

AddExtraKPI(kpi) ==
    /\ Len(kpis) - seedPos < MaxExtra
    /\ MetricsCollector_AddKPI(kpi)
    /\ UNCHANGED <<seedPos, kpiLookup>>

CallGetKPI(key) ==
    /\ kpiLookup' = [key |-> key, ret |-> GetKPI(kpis, key)]
    /\ UNCHANGED <<cvars, seedPos>>

\* ------------------------------- two goroutines on one MetricsCollector
\* The code takes no lock: a call is the sequence of its reads and writes of
\* the collector's fields, and the steps of two calls interleave.
Goroutines == {1, 2}

RaceCalls ==
    { [op |-> "AddMetric", item |-> SecurityMetric(TypeCompliance, Num(80), Num(100))],
      [op |-> "AddMetric", item |-> SecurityMetric(TypeRisk, Num(30), Num(50))],
      [op |-> "AddKPI", item |-> GetCommonKPIs[1]],
      [op |-> "AddKPI", item |-> GetCommonKPIs[5]] }

\* append(c.metrics, metric) / append(c.kpis, kpi): the read of the slice
ReadSlice(g) ==
    /\ gpc[g] = "start"
    /\ glocal' = [glocal EXCEPT ![g] = IF garg[g].op = "AddMetric" THEN metrics ELSE kpis]
    /\ gpc' = [gpc EXCEPT ![g] = "append"]
    /\ UNCHANGED <<cvars, garg>>

\* c.metrics = ... / c.kpis = ...: the write of the appended slice
WriteSlice(g) ==
    /\ gpc[g] = "append"
    /\ IF garg[g].op = "AddMetric"
       THEN metrics' = Append(glocal[g], garg[g].item) /\ UNCHANGED kpis
       ELSE kpis' = Append(glocal[g], garg[g].item) /\ UNCHANGED metrics
    /\ gpc' = [gpc EXCEPT ![g] = "TotalMetrics"]
    /\ UNCHANGED <<summary, glocal, garg>>

\* one assignment of updateSummary
WriteSummaryField(g, field, value, then) ==
    /\ gpc[g] = field
    /\ summary' = [summary EXCEPT ![field] = value]
    /\ gpc' = [gpc EXCEPT ![g] = then]
    /\ UNCHANGED <<metrics, kpis, glocal, garg>>

WriteTotalMetrics(g) == WriteSummaryField(g, "TotalMetrics", Len(metrics), "TotalKPIS")

WriteTotalKPIS(g) == WriteSummaryField(g, "TotalKPIS", Len(kpis), "ComplianceScore")

WriteComplianceScore(g) ==
    WriteSummaryField(g, "ComplianceScore", GetComplianceScore(metrics), "RiskScore")

WriteRiskScore(g) ==
    WriteSummaryField(g, "RiskScore", GetRiskScore(metrics), "OverallHealth")

WriteOverallHealth(g) ==
    WriteSummaryField(g, "OverallHealth",
                      determineHealth(summary.ComplianceScore, summary.RiskScore), "done")

\* ------------------------------------------------- one determineHealth call
\* scores on, next to and between the thresholds, and the non-finite ones
HealthInputs ==
    { Num(0), Num(30), Num(31), Fin(91, 2), Num(49), Num(50), Num(51), Num(69),
      Num(70), Num(71), Num(89), Fin(899, 10), Num(90), Num(92), Num(150),
      Num(-50), NaN, PInf, NInf }

NotCalled == "(not called)"

CallDetermineHealth ==
    /\ hResult = NotCalled
    /\ hResult' = determineHealth(hCompliance, hRisk)
    /\ UNCHANGED <<hCompliance, hRisk>>

\* -------------------------------------------------------- ReportGenerator
FormatMarkdown == "markdown"
FormatCSV == "csv"

\* time.Now().Format("20060102150405") keeps the whole second of the reading;
\* "rpt-" + that string is represented by the second itself
ReportID(t) == t \div TicksPerSecond

MetricData(name, type, v, g, status, trend) ==
    [Name |-> name, Type |-> type, Value |-> v, Target |-> g,
     Status |-> status, Trend |-> trend]

KPIData(key, name, v, g, status, trend, unit, category) ==
    [Key |-> key, Name |-> name, Value |-> v, Target |-> g, Status |-> status,
     Trend |-> trend, Unit |-> unit, Category |-> category]

\* ExecutiveSummary{} and TechnicalSummary{}: Go's zero values
ZeroExecutive ==
    [OverallHealth |-> "", ComplianceScore |-> Zero, RiskScore |-> Zero,
     TopConcerns |-> << >>, TopAchievements |-> << >>,
     Recommendations |-> << >>, ActionItems |-> << >>]

ZeroTechnical ==
    [MetricsCovered |-> 0, KPIsTracked |-> 0, AlertsActive |-> 0,
     IncidentsLastMonth |-> 0, VulnerabilitiesOpen |-> 0,
     ComplianceStatus |-> "", DetectionRate |-> Zero, ResponseTime |-> Zero]

\* what callers pass in
ReportInputs ==
    { <<"Security Metrics Report", "Comprehensive security metrics report", FormatMarkdown>>,
      <<"Weekly Export", "Metric rows", FormatCSV>> }

MetricItems ==
    { MetricData("Vulnerabilities Open", "count", Num(45), Num(20), "ABOVE_TARGET", "IMPROVING"),
      MetricData("Critical Vulnerabilities", "count", Num(3), Num(0), "ABOVE_TARGET", "STABLE") }

KPIItems ==
    { KPIData("mttr", "Mean Time to Respond (MTTR)", Fin(5, 2), Num(1),
              "BELOW_TARGET", "IMPROVING", "hours", "Response") }

ExecutiveInputs ==
    { [ZeroExecutive EXCEPT !.OverallHealth = "GOOD", !.ComplianceScore = Num(92),
                            !.RiskScore = Fin(91, 2),
                            !.TopConcerns = <<"Security coverage needs improvement">>] }

TechnicalInputs ==
    { [ZeroTechnical EXCEPT !.MetricsCovered = 6, !.KPIsTracked = 6,
                            !.ComplianceStatus = "COMPLIANT",
                            !.DetectionRate = Num(95), !.ResponseTime = Fin(5, 2)] }

\* every ID the clock can produce, and one it cannot
IDInputs == 0 .. (ReportID(MaxNow) + 1)

Nil == 0
NoLookup == [id |-> -1, ret |-> Nil]

NewReportGenerator ==
    /\ reports = << >>
    /\ now = 0
    /\ lookup = NoLookup

\* the clock never goes back
Tick ==
    /\ now < MaxNow
    /\ now' = now + 1
    /\ UNCHANGED <<reports, lookup>>

\* the &Report{...} literal of GenerateReport
NewReport(t1, title, description, format, t2) ==
    [ID |-> ReportID(t1), Title |-> title, Description |-> description,
     Format |-> format, CreatedAt |-> t2, Metrics |-> << >>,
     KPIS |-> << >>, Executive |-> ZeroExecutive,
     Technical |-> ZeroTechnical]

\* two readings of the clock: the ID from the first, CreatedAt from the second
GenerateReport(title, description, format) ==
    /\ Len(reports) < MaxReports
    /\ \E t2 \in now .. MaxNow :
         /\ reports' = Append(reports, NewReport(now, title, description, format, t2))
         /\ now' = t2
    /\ UNCHANGED lookup

\* for i := range g.reports { if g.reports[i].ID == reportID { ...; break } }:
\* the index of the first report with that ID, Nil when the loop falls through
RECURSIVE FindReport(_, _, _)
FindReport(rs, i, reportID) ==
    IF i > Len(rs) THEN Nil
    ELSE IF rs[i].ID = reportID THEN i
    ELSE FindReport(rs, i + 1, reportID)

\* g.reports after AddMetric(reportID, metric)
AddMetricTo(rs, reportID, metric) ==
    LET i == FindReport(rs, 1, reportID)
    IN  IF i = Nil THEN rs ELSE [rs EXCEPT ![i].Metrics = Append(@, metric)]

\* g.reports after AddKPI(reportID, kpi)
AddKPITo(rs, reportID, kpi) ==
    LET i == FindReport(rs, 1, reportID)
    IN  IF i = Nil THEN rs ELSE [rs EXCEPT ![i].KPIS = Append(@, kpi)]

ReportGenerator_AddMetric(reportID, metric) ==
    LET i == FindReport(reports, 1, reportID)
    IN  /\ i # Nil => Len(reports[i].Metrics) + Len(reports[i].KPIS) < MaxItems
        /\ reports' = AddMetricTo(reports, reportID, metric)
        /\ UNCHANGED <<now, lookup>>

ReportGenerator_AddKPI(reportID, kpi) ==
    LET i == FindReport(reports, 1, reportID)
    IN  /\ i # Nil => Len(reports[i].Metrics) + Len(reports[i].KPIS) < MaxItems
        /\ reports' = AddKPITo(reports, reportID, kpi)
        /\ UNCHANGED <<now, lookup>>

SetExecutiveSummary(reportID, s) ==
    LET i == FindReport(reports, 1, reportID)
    IN  /\ reports' = IF i = Nil THEN reports
                      ELSE [reports EXCEPT ![i].Executive = s]
        /\ UNCHANGED <<now, lookup>>

SetTechnicalSummary(reportID, s) ==
    LET i == FindReport(reports, 1, reportID)
    IN  /\ reports' = IF i = Nil THEN reports
                      ELSE [reports EXCEPT ![i].Technical = s]
        /\ UNCHANGED <<now, lookup>>

\* &g.reports[i] is represented by the index i
GetReport(rs, reportID) == FindReport(rs, 1, reportID)

CallGetReport(reportID) ==
    /\ lookup' = [id |-> reportID, ret |-> GetReport(reports, reportID)]
    /\ UNCHANGED <<reports, now>>

\* ------------------------------------------------------------- rendering
\* A Go string is a sequence of fragments: the separators "," and "\n" are
\* fragments of their own, every other fragment is text holding neither.
NL == <<"\n">>
Comma == <<",">>
Str(text) == <<text>>

\* the fragments of a caller's string: the strings that hold a separator are
\* listed, every other string the model uses holds none
Frags(str) ==
    CASE str = "Patches, applied" -> <<"Patches", ",", " applied">>
      [] str = "Open\nVulnerabilities" -> <<"Open", "\n", "Vulnerabilities">>
      [] OTHER -> <<str>>

\* fmt.Sprintf("%.1f", x): one decimal, the nearest tenth (ties to even, which
\* only values with an exact binary form reach), the sign kept
SprintfF1(x) ==
    IF IsNaN(x) THEN "NaN"
    ELSE IF x.k = "inf" THEN (IF x.n < 0 THEN "-Inf" ELSE "+Inf")
    ELSE LET a  == Abs(x.n) * 10
             q  == a \div x.d
             r  == a % x.d
             up == (2 * r > x.d) \/ (2 * r = x.d /\ q % 2 = 1)
             t  == IF up THEN q + 1 ELSE q
         IN  (IF x.n < 0 THEN "-" ELSE "") \o ToString(t \div 10) \o "."
             \o ToString(t % 10)

\* fmt.Sprintf("%d", i)
SprintfD(i) == ToString(i)

\* the ID string and CreatedAt.Format("2006-01-02 15:04:05"): whole seconds
IDText(id) == "rpt-" \o ToString(id)
TimeText(t) == ToString(t \div TicksPerSecond)

\* for i, x := range items { "  [i+1] " + x + "\n" }
RECURSIVE NumberedLines(_, _)
NumberedLines(items, i) ==
    IF i > Len(items) THEN << >>
    ELSE Str("  [" \o SprintfD(i) \o "] ") \o Frags(items[i]) \o NL
         \o NumberedLines(items, i + 1)

GenerateExecutiveReport(report) ==
    Str("=== Executive Security Metrics Report ===") \o NL \o NL
    \o Str("Report ID: " \o IDText(report.ID)) \o NL
    \o Str("Title: ") \o Frags(report.Title) \o NL
    \o Str("Created: " \o TimeText(report.CreatedAt)) \o NL \o NL
    \o Str("Executive Summary") \o NL
    \o Str("=================") \o NL \o NL
    \o Str("Overall Health: ") \o Frags(report.Executive.OverallHealth) \o NL
    \o Str("Compliance Score: " \o SprintfF1(report.Executive.ComplianceScore) \o "%") \o NL
    \o Str("Risk Score: " \o SprintfF1(report.Executive.RiskScore)) \o NL \o NL
    \o (IF Len(report.Executive.TopConcerns) > 0
        THEN Str("Top Concerns:") \o NL
             \o NumberedLines(report.Executive.TopConcerns, 1) \o NL
        ELSE << >>)
    \o (IF Len(report.Executive.TopAchievements) > 0
        THEN Str("Top Achievements:") \o NL
             \o NumberedLines(report.Executive.TopAchievements, 1) \o NL
        ELSE << >>)
    \o (IF Len(report.Executive.Recommendations) > 0
        THEN Str("Recommendations:") \o NL
             \o NumberedLines(report.Executive.Recommendations, 1) \o NL
        ELSE << >>)
    \o (IF Len(report.Executive.ActionItems) > 0
        THEN Str("Action Items:") \o NL
             \o NumberedLines(report.Executive.ActionItems, 1)
        ELSE << >>)

RECURSIVE TechnicalMetricBlocks(_, _)
TechnicalMetricBlocks(ms, i) ==
    IF i > Len(ms) THEN << >>
    ELSE Str("  [" \o SprintfD(i) \o "] ") \o Frags(ms[i].Name) \o NL
         \o Str("      Value: " \o SprintfF1(ms[i].Value) \o " ") \o Frags(ms[i].Type) \o NL
         \o Str("      Target: " \o SprintfF1(ms[i].Target) \o " ") \o Frags(ms[i].Type) \o NL
         \o Str("      Status: ") \o Frags(ms[i].Status) \o NL
         \o Str("      Trend: ") \o Frags(ms[i].Trend) \o NL \o NL
         \o TechnicalMetricBlocks(ms, i + 1)

RECURSIVE TechnicalKPIBlocks(_, _)
TechnicalKPIBlocks(ks, i) ==
    IF i > Len(ks) THEN << >>
    ELSE Str("  [" \o SprintfD(i) \o "] ") \o Frags(ks[i].Name) \o NL
         \o Str("      Value: " \o SprintfF1(ks[i].Value) \o " ") \o Frags(ks[i].Unit) \o NL
         \o Str("      Target: " \o SprintfF1(ks[i].Target) \o " ") \o Frags(ks[i].Unit) \o NL
         \o Str("      Status: ") \o Frags(ks[i].Status) \o NL
         \o Str("      Trend: ") \o Frags(ks[i].Trend) \o NL
         \o Str("      Category: ") \o Frags(ks[i].Category) \o NL \o NL
         \o TechnicalKPIBlocks(ks, i + 1)

GenerateTechnicalReport(report) ==
    Str("=== Technical Security Metrics Report ===") \o NL \o NL
    \o Str("Report ID: " \o IDText(report.ID)) \o NL \o NL
    \o Str("Technical Summary") \o NL
    \o Str("=================") \o NL \o NL
    \o Str("Metrics Covered: " \o SprintfD(report.Technical.MetricsCovered)) \o NL
    \o Str("KPIs Tracked: " \o SprintfD(report.Technical.KPIsTracked)) \o NL
    \o Str("Active Alerts: " \o SprintfD(report.Technical.AlertsActive)) \o NL
    \o Str("Incidents (Last Month): " \o SprintfD(report.Technical.IncidentsLastMonth)) \o NL
    \o Str("Open Vulnerabilities: " \o SprintfD(report.Technical.VulnerabilitiesOpen)) \o NL
    \o Str("Compliance Status: ") \o Frags(report.Technical.ComplianceStatus) \o NL
    \o Str("Detection Rate: " \o SprintfF1(report.Technical.DetectionRate) \o "%") \o NL
    \o Str("Response Time: " \o SprintfF1(report.Technical.ResponseTime) \o " hours") \o NL \o NL
    \o (IF Len(report.Metrics) > 0
        THEN Str("Security Metrics:") \o NL \o TechnicalMetricBlocks(report.Metrics, 1)
        ELSE << >>)
    \o (IF Len(report.KPIS) > 0
        THEN Str("Key Performance Indicators:") \o NL \o TechnicalKPIBlocks(report.KPIS, 1)
        ELSE << >>)

GenerateMarkdownReport(report) ==
    Str("# Security Metrics Report") \o NL \o NL
    \o Str("**Report ID:** " \o IDText(report.ID)) \o NL \o NL
    \o Str("**Title:** ") \o Frags(report.Title) \o NL
    \o Str("**Created:** " \o TimeText(report.CreatedAt)) \o NL \o NL
    \o Str("## Executive Summary") \o NL \o NL
    \o Str("| Metric | Value |") \o NL
    \o Str("|--------|-------|") \o NL
    \o Str("| Overall Health | ") \o Frags(report.Executive.OverallHealth) \o Str(" |") \o NL
    \o Str("| Compliance Score | " \o SprintfF1(report.Executive.ComplianceScore) \o "% |") \o NL
    \o Str("| Risk Score | " \o SprintfF1(report.Executive.RiskScore) \o " |") \o NL \o NL

GenerateHTMLReport(report) ==
    Str("<!DOCTYPE html>") \o NL \o Str("<html>") \o NL \o Str("<head>") \o NL
    \o Str("<title>Security Metrics Report - ") \o Frags(report.Title) \o Str("</title>") \o NL
    \o Str("</head>") \o NL \o Str("<body>") \o NL
    \o Str("<h1>Security Metrics Report</h1>") \o NL
    \o Str("<h2>") \o Frags(report.Title) \o Str("</h2>") \o NL
    \o Str("<p><strong>Report ID:</strong> " \o IDText(report.ID) \o "</p>") \o NL
    \o Str("<p><strong>Created:</strong> " \o TimeText(report.CreatedAt) \o "</p>") \o NL
    \o Str("</body>") \o NL \o Str("</html>") \o NL

RECURSIVE CSVRows(_, _)
CSVRows(ms, i) ==
    IF i > Len(ms) THEN << >>
    ELSE Frags(ms[i].Name) \o Comma \o Str(SprintfF1(ms[i].Value)) \o Comma
         \o Str(SprintfF1(ms[i].Target)) \o Comma \o Frags(ms[i].Status) \o Comma
         \o Frags(ms[i].Trend) \o NL
         \o CSVRows(ms, i + 1)

\* GenerateCSVReport with a row for every KPI line item after the metric rows
GenerateCSVReport_WithKPIs(report) ==
    Str("Metric Name") \o Comma \o Str("Value") \o Comma \o Str("Target") \o Comma
    \o Str("Status") \o Comma \o Str("Trend") \o NL
    \o CSVRows(report.Metrics, 1) \o CSVRows(report.KPIS, 1)

GenerateCSVReport(report) ==
    Str("Metric Name") \o Comma \o Str("Value") \o Comma \o Str("Target") \o Comma
    \o Str("Status") \o Comma \o Str("Trend") \o NL
    \o CSVRows(report.Metrics, 1)

FormatJSON == "json"
FormatYAML == "yaml"
FormatHTML == "html"

\* the dispatch switching on the format stored in the report
GenerateReportAs_StoredFormat(report, format) ==
    CASE report.Format = FormatMarkdown -> GenerateMarkdownReport(report)
      [] report.Format = FormatHTML -> GenerateHTMLReport(report)
      [] report.Format = FormatCSV -> GenerateCSVReport(report)
      [] OTHER -> GenerateTechnicalReport(report)

\* the package function GenerateReport(report, format)
GenerateReportAs(report, format) ==
    CASE format = FormatMarkdown -> GenerateMarkdownReport(report)
      [] format = FormatHTML -> GenerateHTMLReport(report)
      [] format = FormatCSV -> GenerateCSVReport(report)
      [] OTHER -> GenerateTechnicalReport(report)

\* ------------------------------------------- a caller rendering its report
\* line items a caller may have put in a report: the seed items and two
\* whose name holds a separator
RenderItems ==
    MetricItems
    \cup { MetricData("Patches, applied", "percentage", Num(92), Num(100),
                      "BELOW_TARGET", "IMPROVING"),
           MetricData("Open\nVulnerabilities", "count", Num(45), Num(20),
                      "ABOVE_TARGET", "IMPROVING") }

SeqsUpTo(items, n) == UNION { [1 .. k -> items] : k \in 0 .. n }

\* the Report values a caller may hand to a renderer
RenderDocs ==
    { d \in { [NewReport(0, r[1], r[2], r[3], 0) EXCEPT
                  !.Metrics = ms, !.KPIS = ks, !.Executive = e, !.Technical = t] :
               r \in ReportInputs,
               ms \in SeqsUpTo(RenderItems, MaxItems),
               ks \in SeqsUpTo(KPIItems, MaxItems),
               e \in {ZeroExecutive} \cup ExecutiveInputs,
               t \in {ZeroTechnical} \cup TechnicalInputs } :
        Len(d.Metrics) + Len(d.KPIS) <= MaxItems }

\* the format values callers pass: the declared ones, an unknown one and ""
FormatInputs == {FormatJSON, FormatYAML, FormatMarkdown, FormatHTML, FormatCSV, "pdf", ""}

Renderers ==
    {"GenerateExecutiveReport", "GenerateTechnicalReport", "GenerateMarkdownReport",
     "GenerateHTMLReport", "GenerateCSVReport"}

RenderWith(fn, report) ==
    CASE fn = "GenerateExecutiveReport" -> GenerateExecutiveReport(report)
      [] fn = "GenerateTechnicalReport" -> GenerateTechnicalReport(report)
      [] fn = "GenerateMarkdownReport" -> GenerateMarkdownReport(report)
      [] fn = "GenerateHTMLReport" -> GenerateHTMLReport(report)
      [] fn = "GenerateCSVReport" -> GenerateCSVReport(report)

NoOutput == [fn |-> "", format |-> "", text |-> << >>, again |-> FALSE]
NoDoc == NewReport(0, "", "", "", 0)

\* a renderer that empties report.Metrics as it goes
CallGenerateReportAs_Draining(format) ==
    /\ out' = [fn |-> "GenerateReport", format |-> format,
               text |-> GenerateReportAs(doc, format),
               again |-> (out.fn = "GenerateReport" /\ out.format = format)]
    /\ doc' = [doc EXCEPT !.Metrics = << >>]

\* text := GenerateReport(report, format); again: the call before was the same
CallGenerateReportAs(format) ==
    /\ out' = [fn |-> "GenerateReport", format |-> format,
               text |-> GenerateReportAs(doc, format),
               again |-> (out.fn = "GenerateReport" /\ out.format = format)]
    /\ UNCHANGED doc

\* text := GenerateExecutiveReport(report), ..., GenerateCSVReport(report)
CallRenderer(fn) ==
    /\ out' = [fn |-> fn, format |-> "", text |-> RenderWith(fn, doc),
               again |-> (out.fn = fn)]
    /\ UNCHANGED doc


\* ---------------------------------- the command `secmetrics report <type>`
GetCommonMetrics ==
    << MetricData("Vulnerabilities Open", "count", Num(45), Num(20), "ABOVE_TARGET",
                  "IMPROVING"),
       MetricData("Critical Vulnerabilities", "count", Num(3), Num(0), "ABOVE_TARGET",
                  "STABLE"),
       MetricData("Security Patches Applied", "percentage", Num(92), Num(100),
                  "BELOW_TARGET", "IMPROVING"),
       MetricData("Security Training Completion", "percentage", Num(87), Num(100),
                  "BELOW_TARGET", "IMPROVING") >>

\* the KPIData literal the command builds from a seed KPI
KPIDataOf(kpi) ==
    KPIData(kpi.Key, kpi.Name, kpi.Value, kpi.Target, kpi.Status, kpi.Trend,
            kpi.Unit, kpi.Category)

ReportTypes == {"executive", "technical", "markdown", "html"}

\* where the command is: the statement and, in a loop, the turns done
At(step, i) == [step |-> step, i |-> i]

CLILoadKPI ==
    /\ pc.step = "loadKPIs"
    /\ MetricsCollector_AddKPI(GetCommonKPIs[pc.i + 1])
    /\ pc' = IF pc.i + 1 = Len(GetCommonKPIs) THEN At("GenerateReport", 0)
             ELSE At("loadKPIs", pc.i + 1)
    /\ UNCHANGED <<rvars, dvars, handle, reportType>>

\* report := generator.GenerateReport(...): the registry gets a copy (*report)
\* of the record the returned pointer denotes
CLIGenerateReport ==
    /\ pc.step = "GenerateReport"
    /\ \E t2 \in now .. MaxNow :
         LET report == NewReport(now, "Security Metrics Report",
                                 "Comprehensive security metrics report",
                                 FormatMarkdown, t2)
         IN  /\ reports' = Append(reports, report)
             /\ handle' = report
             /\ now' = t2
    /\ pc' = At("Executive", 0)
    /\ UNCHANGED <<cvars, dvars, lookup, reportType>>

CLISetExecutive ==
    /\ pc.step = "Executive"
    /\ handle' = [handle EXCEPT !.Executive =
                    [OverallHealth |-> GetSummary.OverallHealth,
                     ComplianceScore |-> GetSummary.ComplianceScore,
                     RiskScore |-> GetSummary.RiskScore,
                     TopConcerns |-> <<"Vulnerability remediation rate below target",
                                       "Security coverage needs improvement">>,
                     TopAchievements |-> <<"MTTD improved by 20%",
                                           "Compliance score at 92%">>,
                     Recommendations |-> <<"Increase security automation",
                                           "Expand security monitoring coverage">>,
                     ActionItems |-> <<"Address critical vulnerabilities",
                                       "Complete security training">>]]
    /\ pc' = At("Technical", 0)
    /\ UNCHANGED <<cvars, rvars, dvars, reportType>>

CLISetTechnical ==
    /\ pc.step = "Technical"
    /\ handle' = [handle EXCEPT !.Technical =
                    [MetricsCovered |-> 6, KPIsTracked |-> 6, AlertsActive |-> 12,
                     IncidentsLastMonth |-> 23, VulnerabilitiesOpen |-> 45,
                     ComplianceStatus |-> "COMPLIANT", DetectionRate |-> Num(95),
                     ResponseTime |-> Fin(5, 2)]]
    /\ pc' = At("AddMetric", 0)
    /\ UNCHANGED <<cvars, rvars, dvars, reportType>>

CLIAddMetric ==
    /\ pc.step = "AddMetric"
    /\ reports' = AddMetricTo(reports, handle.ID, GetCommonMetrics[pc.i + 1])
    /\ pc' = IF pc.i + 1 = Len(GetCommonMetrics) THEN At("AddKPI", 0)
             ELSE At("AddMetric", pc.i + 1)
    /\ UNCHANGED <<cvars, now, lookup, dvars, handle, reportType>>

CLIAddKPI ==
    /\ pc.step = "AddKPI"
    /\ reports' = AddKPITo(reports, handle.ID, KPIDataOf(GetCommonKPIs[pc.i + 1]))
    /\ pc' = IF pc.i + 1 = Len(GetCommonKPIs) THEN At("render", 0)
             ELSE At("AddKPI", pc.i + 1)
    /\ UNCHANGED <<cvars, now, lookup, dvars, handle, reportType>>

\* switch reportType { ... }: the renderer is handed the pointer report
CLIRender ==
    /\ pc.step = "render"
    /\ LET fn == CASE reportType = "executive" -> "GenerateExecutiveReport"
                   [] reportType = "technical" -> "GenerateTechnicalReport"
                   [] reportType = "markdown" -> "GenerateMarkdownReport"
                   [] OTHER -> "GenerateTechnicalReport"
       IN  out' = [fn |-> fn, format |-> "", text |-> RenderWith(fn, handle),
                   again |-> FALSE]
    /\ pc' = At("done", 0)
    /\ UNCHANGED <<cvars, rvars, doc, handle, reportType>>

CLITick ==
    /\ pc.step # "done"
    /\ Tick
    /\ UNCHANGED <<cvars, dvars, clivars>>

\* ---------------------------------------------------------- specifications
IdleCollector == NewMetricsCollector
IdleHealth == hCompliance = Zero /\ hRisk = Zero /\ hResult = NotCalled
IdleReports == NewReportGenerator
IdleRender == doc = NoDoc /\ out = NoOutput
IdleSeed == seedPos = 0 /\ kpiLookup = NoKPILookup
IdleCLI == handle = NoDoc /\ pc = At("idle", 0) /\ reportType = ""
IdleRace == gpc = << >> /\ glocal = << >> /\ garg = << >>
IdleOthers == IdleRender /\ IdleSeed /\ IdleCLI /\ IdleRace

\* the collector
Init == NewMetricsCollector /\ IdleHealth /\ IdleReports /\ IdleOthers

Next ==
    /\ \/ \E metric \in MetricInputs : AddMetric(metric)
       \/ \E kpi \in KPIInputs : AddKPI(kpi)
    /\ UNCHANGED <<hvars, rvars, dvars, svars, clivars, gvars>>

Spec == Init /\ [][Next]_vars

\* a collector loaded with the seed KPIs, as the commands of the CLI load it
InitSeed ==
    /\ NewMetricsCollector
    /\ seedPos = 0
    /\ kpiLookup = NoKPILookup
    /\ IdleHealth /\ IdleReports /\ IdleRender /\ IdleCLI /\ IdleRace

NextSeed ==
    /\ \/ LoadSeedKPI
       \/ \E kpi \in ExtraKPIs : AddExtraKPI(kpi)
       \/ \E key \in KPIKeys : CallGetKPI(key)
    /\ UNCHANGED <<hvars, rvars, dvars, clivars, gvars>>

SpecSeed == InitSeed /\ [][NextSeed]_vars

\* two concurrent mutating calls on a new collector
InitRace ==
    /\ NewMetricsCollector
    /\ gpc = [g \in Goroutines |-> "start"]
    /\ glocal = [g \in Goroutines |-> << >>]
    /\ garg \in [Goroutines -> RaceCalls]
    /\ IdleHealth /\ IdleReports /\ IdleRender /\ IdleSeed /\ IdleCLI

NextRace ==
    /\ \E g \in Goroutines :
          \/ ReadSlice(g)
          \/ WriteSlice(g)
          \/ WriteTotalMetrics(g)
          \/ WriteTotalKPIS(g)
          \/ WriteComplianceScore(g)
          \/ WriteRiskScore(g)
          \/ WriteOverallHealth(g)
    /\ UNCHANGED <<hvars, rvars, dvars, svars, clivars>>

SpecRace == InitRace /\ [][NextRace]_vars

\* one run of the report command
InitCLI ==
    /\ NewMetricsCollector
    /\ NewReportGenerator
    /\ handle = NoDoc
    /\ pc = At("loadKPIs", 0)
    /\ reportType \in ReportTypes
    /\ IdleHealth /\ IdleRender /\ IdleSeed /\ IdleRace

NextCLI ==
    /\ \/ CLILoadKPI
       \/ CLIGenerateReport
       \/ CLISetExecutive
       \/ CLISetTechnical
       \/ CLIAddMetric
       \/ CLIAddKPI
       \/ CLIRender
       \/ CLITick
    /\ UNCHANGED <<hvars, svars, gvars>>

SpecCLI == InitCLI /\ [][NextCLI]_vars

\* determineHealth on every pair of inputs
InitHealth ==
    /\ hCompliance \in HealthInputs
    /\ hRisk \in HealthInputs
    /\ hResult = NotCalled
    /\ IdleCollector /\ IdleReports /\ IdleOthers

NextHealth == CallDetermineHealth /\ UNCHANGED <<cvars, rvars, dvars, svars, clivars, gvars>>

SpecHealth == InitHealth /\ [][NextHealth]_vars

\* the report generator and its clock
InitReports == NewReportGenerator /\ IdleCollector /\ IdleHealth /\ IdleOthers

NextReports ==
    /\ \/ Tick
       \/ \E r \in ReportInputs : GenerateReport(r[1], r[2], r[3])
       \/ \E id \in IDInputs, m \in MetricItems : ReportGenerator_AddMetric(id, m)
       \/ \E id \in IDInputs, k \in KPIItems : ReportGenerator_AddKPI(id, k)
       \/ \E id \in IDInputs, s \in ExecutiveInputs : SetExecutiveSummary(id, s)
       \/ \E id \in IDInputs, s \in TechnicalInputs : SetTechnicalSummary(id, s)
       \/ \E id \in IDInputs : CallGetReport(id)
    /\ UNCHANGED <<cvars, hvars, dvars, svars, clivars, gvars>>

SpecReports == InitReports /\ [][NextReports]_vars

\* a caller rendering a report it holds, any number of times
InitRender ==
    /\ doc \in RenderDocs
    /\ out = NoOutput
    /\ IdleCollector /\ IdleHealth /\ IdleReports /\ IdleSeed /\ IdleCLI /\ IdleRace

NextRender ==
    /\ \/ \E format \in FormatInputs : CallGenerateReportAs(format)
       \/ \E fn \in Renderers : CallRenderer(fn)
    /\ UNCHANGED <<cvars, hvars, rvars, svars, clivars, gvars>>

SpecRender == InitRender /\ [][NextRender]_vars

\* ------------------------------------------------------------------ claims
Tiers == {"HEALTHY", "GOOD", "FAIR", "POOR"}

LCM(a, b) == (a * b) \div GCD(a, b)

\* C1: after any sequence of AddMetric and AddKPI calls the stored summary
\* holds the current number of metrics and of KPIs and the compliance and risk
\* scores of the current collections, with no refresh call in between.
InvSummaryCurrent ==
    /\ summary.TotalMetrics = Len(metrics)
    /\ summary.TotalKPIS = Len(kpis)
    /\ summary.ComplianceScore = GetComplianceScore(metrics)
    /\ summary.RiskScore = GetRiskScore(metrics)

WitSummaryCurrent ==
    /\ Len(metrics) = 2
    /\ Len(kpis) = 1
    /\ summary.TotalMetrics = 2
    /\ summary.TotalKPIS = 1
    /\ summary.ComplianceScore = Num(90)

\* the tier the threshold table gives, first match first
TableTier(c, r) ==
    CASE FGe(c, Num(90)) /\ FLe(r, Num(30)) -> "HEALTHY"
      [] ~(FGe(c, Num(90)) /\ FLe(r, Num(30)))
         /\ FGe(c, Num(70)) /\ FLe(r, Num(50)) -> "GOOD"
      [] ~(FGe(c, Num(90)) /\ FLe(r, Num(30)))
         /\ ~(FGe(c, Num(70)) /\ FLe(r, Num(50)))
         /\ FGe(c, Num(50)) /\ FLe(r, Num(70)) -> "FAIR"
      [] OTHER -> "POOR"

\* C2: in every state of a collector, the freshly constructed one included,
\* the summary's OverallHealth is one of HEALTHY, GOOD, FAIR, POOR and is the
\* tier the threshold table gives for the summary's scores.
InvHealthTier ==
    /\ summary.OverallHealth \in Tiers
    /\ summary.OverallHealth = TableTier(summary.ComplianceScore, summary.RiskScore)

\* C3: determineHealth returns, for every pair of scores, exactly one tier:
\* HEALTHY iff compliance >= 90 and risk <= 30; GOOD iff not that and
\* compliance >= 70 and risk <= 50; FAIR iff neither and compliance >= 50 and
\* risk <= 70; POOR iff none of the three; (92, 45.5) gives GOOD.
InvDetermineHealth ==
    hResult # NotCalled =>
        LET H == FGe(hCompliance, Num(90)) /\ FLe(hRisk, Num(30))
            G == FGe(hCompliance, Num(70)) /\ FLe(hRisk, Num(50))
            F == FGe(hCompliance, Num(50)) /\ FLe(hRisk, Num(70))
        IN  /\ hResult \in Tiers
            /\ (hResult = "HEALTHY") <=> H
            /\ (hResult = "GOOD") <=> (~H /\ G)
            /\ (hResult = "FAIR") <=> (~H /\ ~G /\ F)
            /\ (hResult = "POOR") <=> (~H /\ ~G /\ ~F)
            /\ (hCompliance = Num(92) /\ hRisk = Fin(91, 2)) => hResult = "GOOD"

WitDetermineHealth ==
    hCompliance = Num(92) /\ hRisk = Fin(91, 2) /\ hResult = "GOOD"

\* the stored metrics of one type, by position
IdxOfType(t) == { i \in 1 .. Len(metrics) : metrics[i].Type = t }

\* metric i's ratio (Value / Target) * 100 as the fraction RatioNum / RatioDen
RatioNum(i) == 100 * metrics[i].Value.n * metrics[i].Target.d
RatioDen(i) == metrics[i].Value.d * metrics[i].Target.n

RECURSIVE RatioLCM(_)
RatioLCM(S) ==
    IF S = {} THEN 1
    ELSE LET i == CHOOSE x \in S : TRUE
         IN  LCM(Abs(RatioDen(i)), RatioLCM(S \ {i}))

RECURSIVE RatioSum(_, _)
RatioSum(S, L) ==
    IF S = {} THEN 0
    ELSE LET i == CHOOSE x \in S : TRUE
         IN  Sgn(RatioDen(i)) * RatioNum(i) * (L \div Abs(RatioDen(i)))
             + RatioSum(S \ {i}, L)

\* the mean of the ratios of the metrics S: with a zero target among them it
\* is what IEEE division gives (x/0 is an infinity of x's sign, 0/0 is NaN)
MeanOfRatios(S) ==
    LET nan  == \E i \in S : RatioDen(i) = 0 /\ RatioNum(i) = 0
        pinf == \E i \in S : RatioDen(i) = 0 /\ RatioNum(i) > 0
        ninf == \E i \in S : RatioDen(i) = 0 /\ RatioNum(i) < 0
        L    == RatioLCM(S)
    IN  IF nan \/ (pinf /\ ninf) THEN NaN
        ELSE IF pinf THEN PInf
        ELSE IF ninf THEN NInf
        ELSE Fin(RatioSum(S, L), L * Cardinality(S))

ComplianceValues ==
    [i \in 1 .. Len(GetMetricByType(metrics, TypeCompliance)) |->
        <<GetMetricByType(metrics, TypeCompliance)[i].Value,
          GetMetricByType(metrics, TypeCompliance)[i].Target>>]

\* C4: GetComplianceScore is 0 when no compliance metric is stored and
\* otherwise the unweighted mean of (Value / Target) * 100 over exactly the
\* compliance metrics, whatever other metrics and KPIs are stored;
\* {80/100, 100/100} gives 90 and {92/100} gives 92.
InvComplianceMean ==
    LET S == IdxOfType(TypeCompliance)
        c == GetComplianceScore(metrics)
    IN  /\ S = {} => c = Zero
        /\ S # {} => c = MeanOfRatios(S)
        /\ ComplianceValues = << <<Num(80), Num(100)>>, <<Num(100), Num(100)>> >>
              => c = Num(90)
        /\ ComplianceValues = << <<Num(92), Num(100)>> >> => c = Num(92)

WitComplianceMean ==
    /\ Len(metrics) = 3
    /\ Len(kpis) > 0
    /\ IdxOfType(TypeCompliance) = {1, 3}
    /\ ComplianceValues = << <<Num(80), Num(100)>>, <<Num(100), Num(100)>> >>
    /\ metrics[2].Type = TypeRisk
    /\ GetComplianceScore(metrics) = Num(90)

RECURSIVE ValueLCM(_)
ValueLCM(S) ==
    IF S = {} THEN 1
    ELSE LET i == CHOOSE x \in S : TRUE
         IN  LCM(metrics[i].Value.d, ValueLCM(S \ {i}))

RECURSIVE ValueSum(_, _)
ValueSum(S, L) ==
    IF S = {} THEN 0
    ELSE LET i == CHOOSE x \in S : TRUE
         IN  metrics[i].Value.n * (L \div metrics[i].Value.d) + ValueSum(S \ {i}, L)

\* C5: GetRiskScore is 0 when no risk metric is stored and otherwise the mean
\* of the raw Value of exactly the risk metrics; on empty collections the
\* compliance score and the risk score are both 0.
InvRiskMean ==
    LET S == IdxOfType(TypeRisk)
        r == GetRiskScore(metrics)
        L == ValueLCM(S)
    IN  /\ S = {} => r = Zero
        /\ S # {} => r = Fin(ValueSum(S, L), L * Cardinality(S))
        /\ (metrics = << >> /\ kpis = << >>)
              => (GetComplianceScore(metrics) = Zero /\ r = Zero)

WitRiskMean ==
    /\ Len(metrics) = 3
    /\ IdxOfType(TypeRisk) = {1, 3}
    /\ metrics[1].Value = Num(30)
    /\ metrics[3].Value = Fin(91, 2)
    /\ metrics[2].Type = TypeCompliance
    /\ GetRiskScore(metrics) = Fin(151, 4)

\* C6: whatever values and targets are added, the summary's compliance score
\* lies in 0..100 and its risk score is at least 0.
InvScoreRange ==
    /\ FGe(summary.ComplianceScore, Zero)
    /\ FLe(summary.ComplianceScore, Num(100))
    /\ FGe(summary.RiskScore, Zero)

\* C7: a compliance metric with Target = 0 is skipped: the compliance score,
\* stored and computed, stays finite and is the score of the other metrics.
InvTargetZeroGuarded ==
    LET guarded == SelectSeq(metrics, LAMBDA m : m.Target # Zero)
    IN  /\ IsFinite(GetComplianceScore(metrics))
        /\ IsFinite(summary.ComplianceScore)
        /\ summary.ComplianceScore = GetComplianceScore(guarded)

\* C8: any two reports created on one generator have distinct IDs.
InvUniqueReportIDs ==
    \A i, j \in 1 .. Len(reports) : i # j => reports[i].ID # reports[j].ID

\* the registry after item was appended to field f of every report created
\* with reportID, all else as it was
AppendedTo(f, reportID, item) ==
    [i \in 1 .. Len(reports) |->
        IF reports[i].ID = reportID
        THEN [reports[i] EXCEPT ![f] = Append(@, item)]
        ELSE reports[i]]

\* C9: AddMetric / AddKPI with a report's ID appends the item at the end of
\* that report's metric / KPI sequence, keeps its earlier items in order and
\* leaves every other report and field as it was; with an ID no report has,
\* the registry is unchanged.
ActAddLineItem ==
    [][/\ \A id \in IDInputs, m \in MetricItems :
             ReportGenerator_AddMetric(id, m) => reports' = AppendedTo("Metrics", id, m)
       /\ \A id \in IDInputs, k \in KPIItems :
             ReportGenerator_AddKPI(id, k) => reports' = AppendedTo("KPIS", id, k)]_vars

\* C10: GetReport(id) is nil exactly when no report was created with that ID
\* and otherwise is the report that was created with it; the call leaves the
\* registry as it was.
InvGetReport ==
    /\ \A id \in IDInputs :
          (GetReport(reports, id) = Nil) <=> (\A i \in 1 .. Len(reports) : reports[i].ID # id)
    /\ \A i \in 1 .. Len(reports) : GetReport(reports, reports[i].ID) = i
    /\ lookup # NoLookup =>
          /\ lookup.ret \in 0 .. Len(reports)
          /\ lookup.ret # Nil => reports[lookup.ret].ID = lookup.id

InvFormatDispatch ==
    out.fn = "GenerateReport" =>
        /\ out.format = "markdown" => out.text = GenerateMarkdownReport(doc)
        /\ out.format = "html" => out.text = GenerateHTMLReport(doc)
        /\ out.format = "csv" => out.text = GenerateCSVReport(doc)
        /\ out.format \notin {"markdown", "html", "csv"}
              => out.text = GenerateTechnicalReport(doc)
        /\ \A f \in FormatInputs :
              GenerateReportAs([doc EXCEPT !.Format = f], out.format) = out.text

WitFormatDispatch ==
    /\ out.fn = "GenerateReport"
    /\ out.format = "json"
    /\ doc.Format = FormatCSV
    /\ Len(doc.Metrics) > 0
    /\ out.text = GenerateTechnicalReport(doc)
    /\ out.text # GenerateCSVReport(doc)

\* text cut at every fragment sep: the segments between them
RECURSIVE SplitOn(_, _)
SplitOn(text, sep) ==
    IF text = << >> THEN << << >> >>
    ELSE LET rest == SplitOn(Tail(text), sep)
         IN  IF Head(text) = sep THEN << << >> >> \o rest
             ELSE << <<Head(text)>> \o Head(rest) >> \o Tail(rest)

\* the lines of a text whose last line is ended by "\n"
Lines(text) ==
    LET segs == SplitOn(text, "\n")
    IN  IF segs[Len(segs)] = << >> THEN SubSeq(segs, 1, Len(segs) - 1) ELSE segs

Fields(line) == SplitOn(line, ",")

IsCSVOutput ==
    \/ out.fn = "GenerateCSVReport"
    \/ out.fn = "GenerateReport" /\ out.format = FormatCSV

CSVHeader == <<"Metric Name", ",", "Value", ",", "Target", ",", "Status", ",", "Trend", "\n">>

\* what the row of metric line item m holds
RowText(m) ==
    Frags(m.Name) \o <<",", SprintfF1(m.Value), ",", SprintfF1(m.Target), ",">>
    \o Frags(m.Status) \o <<",">> \o Frags(m.Trend) \o <<"\n">>

RECURSIVE RowTexts(_)
RowTexts(ms) ==
    IF ms = << >> THEN << >>
    ELSE RowTexts(SubSeq(ms, 1, Len(ms) - 1)) \o RowText(ms[Len(ms)])

RowFields(m) ==
    <<Frags(m.Name), <<SprintfF1(m.Value)>>, <<SprintfF1(m.Target)>>,
      Frags(m.Status), Frags(m.Trend)>>

HasSeparator(str) == \E i \in 1 .. Len(Frags(str)) : Frags(str)[i] \in {",", "\n"}

PlainItem(m) == ~HasSeparator(m.Name) /\ ~HasSeparator(m.Status) /\ ~HasSeparator(m.Trend)

\* C13: the CSV render is the header row Metric Name,Value,Target,Status,Trend
\* followed by the row of each metric line item, in the order added, and by
\* nothing for the KPI line items; with no metric line item it is the header
\* row alone.  (For items whose strings hold no separator that is one line of
\* five fields per item.)
InvCSVRows ==
    IsCSVOutput =>
        /\ out.text = CSVHeader \o RowTexts(doc.Metrics)
        /\ Len(doc.Metrics) = 0 => out.text = CSVHeader
        /\ Fields(Lines(out.text)[1])
              = << <<"Metric Name">>, <<"Value">>, <<"Target">>, <<"Status">>, <<"Trend">> >>
        /\ (\A i \in 1 .. Len(doc.Metrics) : PlainItem(doc.Metrics[i]))
              => /\ Len(Lines(out.text)) = 1 + Len(doc.Metrics)
                 /\ \A i \in 1 .. Len(doc.Metrics) :
                       Fields(Lines(out.text)[i + 1]) = RowFields(doc.Metrics[i])

WitCSVRows ==
    /\ IsCSVOutput
    /\ Len(doc.Metrics) = 1
    /\ Len(doc.KPIS) = 1
    /\ doc.Metrics[1].Name = "Critical Vulnerabilities"
    /\ Lines(out.text)[2]
          = <<"Critical Vulnerabilities", ",", "3.0", ",", "0.0", ",", "ABOVE_TARGET", ",", "STABLE">>

\* C18: every metric line item gives exactly one line of exactly five
\* comma-separated fields, its name, value, target, status and trend, so the
\* CSV render has 1 + N lines, whatever the item's strings hold (a comma, a
\* line break).
InvCSVWellFormed ==
    IsCSVOutput =>
        /\ Len(Lines(out.text)) = 1 + Len(doc.Metrics)
        /\ \A i \in 1 .. Len(doc.Metrics) :
              /\ i + 1 <= Len(Lines(out.text))
              /\ Fields(Lines(out.text)[i + 1]) = RowFields(doc.Metrics[i])

FLt(a, b) == FLe(a, b) /\ ~FLe(b, a)

Rank(tier) ==
    CASE tier = "HEALTHY" -> 3 [] tier = "GOOD" -> 2 [] tier = "FAIR" -> 1 [] OTHER -> 0

\* determineHealth never gets worse when compliance rises and risk falls
HealthMonotone ==
    \A c2 \in HealthInputs, r2 \in HealthInputs :
        (FLe(hCompliance, c2) /\ FGe(hRisk, r2))
            => Rank(determineHealth(c2, r2)) >= Rank(hResult)

SeedsLoadedFirst == Len(kpis) >= 6 /\ SubSeq(kpis, 1, 6) = GetCommonKPIs

SeedName(key) ==
    CASE key = "mttr" -> "Mean Time to Respond (MTTR)"
      [] key = "mttc" -> "Mean Time to Contain (MTTC)"
      [] key = "mttd" -> "Mean Time to Detect (MTTD)"
      [] key = "coverage" -> "Security Coverage"
      [] key = "compliance" -> "Compliance Score"
      [] key = "remediation_rate" -> "Vulnerability Remediation Rate"
      [] OTHER -> ""

\* C14: a GetKPI(key) call returns the first KPI in insertion order whose Key
\* is key, and nil exactly when no stored KPI has the key; on a collector
\* loaded with the seed KPIs the six seed keys give their seed entry, with
\* its name, and detection_rate and response_time give nil (as long as no
\* caller added a KPI of that key).
ActGetKPI ==
    [][kpiLookup' # kpiLookup =>
         LET key == kpiLookup'.key
             ret == kpiLookup'.ret
         IN  /\ ret = 0 <=> ~\E i \in 1 .. Len(kpis) : kpis[i].Key = key
             /\ ret # 0 => /\ ret \in 1 .. Len(kpis)
                           /\ kpis[ret].Key = key
                           /\ \A j \in 1 .. (ret - 1) : kpis[j].Key # key
             /\ SeedsLoadedFirst =>
                   /\ SeedName(key) # "" => /\ ret \in 1 .. 6
                                            /\ kpis[ret] = GetCommonKPIs[ret]
                                            /\ kpis[ret].Name = SeedName(key)
                   /\ (key \in {"detection_rate", "response_time"} /\ Len(kpis) = 6)
                         => ret = 0]_vars

WitGetKPI ==
    /\ SeedsLoadedFirst
    /\ Len(kpis) = 7
    /\ kpis[7].Key = "mttr"
    /\ kpiLookup = [key |-> "mttr", ret |-> 1]

\* C15: a new collector loaded with the seed KPIs of GetCommonKPIs shows
\* Compliance Score 92.0, Risk Score 45.5 and Overall Health GOOD.
InvSeededSummary ==
    (seedPos = 6 /\ kpis = GetCommonKPIs) =>
        /\ SprintfF1(summary.ComplianceScore) = "92.0"
        /\ SprintfF1(summary.RiskScore) = "45.5"
        /\ summary.OverallHealth = "GOOD"

\* C16: when two AddMetric (or AddKPI) calls on one collector run
\* concurrently, every interleaving ends with both records present and the
\* summary totals equal to the collection lengths.
InvSerializedAdds ==
    (\A g \in Goroutines : gpc[g] = "done") =>
        /\ Len(metrics) + Len(kpis) = Cardinality(Goroutines)
        /\ \A g \in Goroutines :
              IF garg[g].op = "AddMetric"
              THEN \E i \in 1 .. Len(metrics) : metrics[i] = garg[g].item
              ELSE \E i \in 1 .. Len(kpis) : kpis[i] = garg[g].item
        /\ summary.TotalMetrics = Len(metrics)
        /\ summary.TotalKPIS = Len(kpis)

\* C17: the handle returned by GenerateReport and the registry entry of its
\* ID are one record: what AddMetric/AddKPI store under the ID the handle
\* shows, what is assigned on the handle GetReport(ID) shows, and the
\* `report technical` command prints the four seed metric items and the six
\* seed KPI items it added.
InvHandleIsEntry ==
    pc.step \notin {"idle", "loadKPIs", "GenerateReport"} =>
        LET i == GetReport(reports, handle.ID)
        IN  /\ i # Nil
            /\ reports[i].Metrics = handle.Metrics
            /\ reports[i].KPIS = handle.KPIS
            /\ reports[i].Executive = handle.Executive
            /\ reports[i].Technical = handle.Technical
            /\ (pc.step = "done" /\ reportType = "technical") =>
                  out.text = GenerateTechnicalReport(
                                [handle EXCEPT !.Metrics = GetCommonMetrics,
                                               !.KPIS = [k \in 1 .. 6 |->
                                                           KPIDataOf(GetCommonKPIs[k])]])

====
